---- MODULE Spec2Model ----
(***************************************************************************)
(* Model of the UPPCL power monitor: the Reading Store (table power_data,  *)
(* written by UppclPowerMonitor.saveData) and the Daily Consumption Engine *)
(* (DailyConsumptionCalculator, table daily_consumption).                  *)
(*                                                                         *)
(* Conventions.                                                            *)
(*  - Time is counted in ticks; an ISO timestamp string is modelled by its *)
(*    tick number (toISOString is fixed-width, so SQL string comparison of *)
(*    timestamps is the comparison of the instants).  A date string        *)
(*    YYYY-MM-DD is modelled by its day number.                            *)
(*  - A nullable column, and the row of a query that may find none, is a   *)
(*    sequence of length 0 (NULL / undefined) or 1.                        *)
(*  - Meter values are integers (units); confidences are in percent        *)
(*    (100 = 1.0) and confidence scores in per-mille (1000 = 1.0), so      *)
(*    that the factor 0.7 is exact.                                        *)
(*  - The ledger rows carry the columns the calculator binds; the          *)
(*    bookkeeping columns id / created_at / updated_at are left out.       *)
(*  - A database failure is an input of the call it hits: the action      *)
(*    takes the place of the failure and follows the try/catch of the      *)
(*    code from there.                                                     *)
(*  - calculateDailyConsumption and saveData are taken as one step each;   *)
(*    backfillDailyConsumptions takes one step per iteration of its loop,  *)
(*    the clock running between the iterations.                            *)
(*  - SpecRace takes calculateDailyConsumption await by await, for two    *)
(*    callers at once: each query and the ledger write is a step, and     *)
(*    saveData and the clock may run between them.                        *)
(***************************************************************************)
EXTENDS Integers, Sequences, FiniteSets, TLC

VARIABLES now, power_data, daily_consumption, ret, backfill, inflight

vars == <<now, power_data, daily_consumption, ret, backfill, inflight>>

(***************************************************************************)
(* Bounds of the model.                                                    *)
(***************************************************************************)
TicksPerMinute == 3
MinutesPerDay == 5
MaxDay == 1
MaxRows == 2
MaxExtraRows == 1
SlackTicks == 1
MaxDays == 2
EvtMinutes == 4
MaxStatusRows == 4

TicksPerDay == TicksPerMinute * MinutesPerDay
MaxTime == (MaxDay + 1) * TicksPerDay - 1
Dates == 0..MaxDay
HalfDay == TicksPerDay \div 2

(***************************************************************************)
(* Program constants.                                                      *)
(***************************************************************************)
GapThreshold == 12
DefaultConfidence == 80
GapPenalty == 7
FullScale == 10
EventConfidence == 100
MaxMeterValue == 100000
MinMonthValue == 10
MaxMonthValue == 1000
BaseConfidence == 50
GridEventLimit == 10
HistoricalConfidence == 900

NULL == <<>>
IsNull(x) == x = <<>>
Some(x) == <<x>>
Val(x) == x[1]

Abs(x) == IF x < 0 THEN -x ELSE x
Min(a, b) == IF a < b THEN a ELSE b

(***************************************************************************)
(* Clock and dates.                                                        *)
(***************************************************************************)
getTodayDate == now \div TicksPerDay

getMidnightTimestamp(dateStr) == dateStr * TicksPerDay

nextMidnight(dateStr) == getMidnightTimestamp(dateStr + 1)

Minute(timestamp) == timestamp \div TicksPerMinute

(***************************************************************************)
(* Reading Store: producer side (optimized_monitor.js).                    *)
(***************************************************************************)
\* data.status || data.value, then the minute prefix of the timestamp
generateFingerprint(data, timestamp) ==
  [category |-> data.category,
   source   |-> data.source,
   skey     |-> IF data.status # "" THEN data.status ELSE "",
   vkey     |-> IF data.status # "" THEN NULL ELSE data.value,
   minute   |-> Minute(timestamp)]

eventFingerprint(eventType, currentTime) ==
  [category |-> "event",
   source   |-> "grid",
   skey     |-> eventType,
   vkey     |-> NULL,
   minute   |-> Minute(currentTime)]

\* consumption readings are those of the current month
isValidData(data) ==
  IF data.category = "availability"
  THEN data.status \in {"online", "offline", "unknown"}
  ELSE IF data.category = "consumption"
  THEN /\ ~IsNull(data.value) /\ Val(data.value) > 0
       /\ Val(data.value) >= MinMonthValue /\ Val(data.value) <= MaxMonthValue
  ELSE IF data.category = "meter_reading"
  THEN ~IsNull(data.value) /\ Val(data.value) >= 0 /\ Val(data.value) <= MaxMeterValue
  ELSE TRUE

\* in percent; the context of a scraped meter reading contains "Reading",
\* that of a current month consumption "Consumption" and "Month"
calculateConfidence(data) ==
  IF data.category = "availability"
  THEN Min(BaseConfidence + (IF data.status # "unknown" THEN 30 ELSE 0) + 20, 100)
  ELSE IF data.category = "consumption"
  THEN Min(BaseConfidence + 40
             + (IF Val(data.value) > 0 THEN 10 ELSE 0)
             + (IF Val(data.value) > 1 THEN 10 ELSE 0)
             + (IF Val(data.value) < 10000 THEN 10 ELSE 0)
             + 10 + 10, 100)
  ELSE IF data.category = "meter_reading"
  THEN Min(BaseConfidence + 40 + 20
             + (IF Val(data.value) > 1000 THEN 10 ELSE 0), 100)
  ELSE Min(BaseConfidence, 100)

Fingerprints(store) == {store[i].fingerprint : i \in 1..Len(store)}

\* variant: INSERT OR REPLACE, the row of the same fingerprint is removed
InsertRow_replace(store, row) ==
  Append(SelectSeq(store, LAMBDA r : r.fingerprint # row.fingerprint), row)

\* INSERT INTO power_data under the UNIQUE(fingerprint) constraint
InsertRow(store, row) ==
  IF row.fingerprint \in Fingerprints(store) THEN store ELSE Append(store, row)

\* the row bound by saveData: status || null, value || null
ReadingRow(data) ==
  [timestamp         |-> data.timestamp,
   category          |-> data.category,
   source            |-> data.source,
   status            |-> data.status,
   consumption_value |-> IF IsNull(data.value) \/ Val(data.value) = 0
                         THEN NULL ELSE data.value,
   confidence        |-> data.confidence,
   previousStatus    |-> "",
   currentStatus     |-> "",
   fingerprint       |-> data.fingerprint]

EventRow(eventType, previousStatus, currentData) ==
  [timestamp         |-> currentData.timestamp,
   category          |-> "event",
   source            |-> "grid",
   status            |-> eventType,
   consumption_value |-> NULL,
   confidence        |-> Some(EventConfidence),
   previousStatus    |-> previousStatus,
   currentStatus     |-> currentData.status,
   fingerprint       |-> eventFingerprint(eventType, currentData.timestamp)]

\* ORDER BY timestamp DESC LIMIT 1 over the rows whose index is in idx
LatestOf(store, idx) ==
  IF idx = {} THEN NULL
  ELSE Some(store[CHOOSE i \in idx :
              \A j \in idx : store[j].timestamp < store[i].timestamp
                             \/ (store[j].timestamp = store[i].timestamp /\ j <= i)])

trackGridStatusChange(store, currentData) ==
  LET idx == {i \in 1..Len(store) :
                store[i].category = "availability" /\ store[i].source = "grid"}
      lastStatus == LatestOf(store, idx)
  IN IF IsNull(lastStatus) THEN store
     ELSE LET previousStatus == Val(lastStatus).status
              currentStatus == currentData.status
              eventType == IF previousStatus = "online" /\ currentStatus = "offline"
                           THEN "interruption"
                           ELSE IF previousStatus = "offline" /\ currentStatus = "online"
                           THEN "restoration"
                           ELSE ""
          IN IF previousStatus # currentStatus /\ eventType # ""
             THEN InsertRow(store, EventRow(eventType, previousStatus, currentData))
             ELSE store

saveOne(store, data) ==
  LET tracked == IF data.category = "availability" /\ data.source = "grid"
                 THEN trackGridStatusChange(store, data)
                 ELSE store
  IN InsertRow(tracked, ReadingRow(data))

(***************************************************************************)
(* Daily Consumption Engine: queries (daily_consumption_calculator.js).    *)
(***************************************************************************)
MeterRows(store) ==
  {i \in 1..Len(store) :
     /\ store[i].category = "meter_reading"
     /\ store[i].source = "grid"
     /\ ~IsNull(store[i].consumption_value)}

\* variant: ORDER BY timestamp ASC, the oldest reading
getLatestMeterReading_oldest(store) ==
  LET idx == MeterRows(store)
  IN IF idx = {} THEN NULL
     ELSE Some(store[CHOOSE i \in idx : \A j \in idx : store[i].timestamp <= store[j].timestamp])

getLatestMeterReading(store) == LatestOf(store, MeterRows(store))

\* variant: the window has no upper end
getMidnightMeterReading_unbounded(store, dateStr) ==
  LET midnightTime == getMidnightTimestamp(dateStr)
      idx == {i \in MeterRows(store) : store[i].timestamp >= midnightTime}
      dist(i) == Abs(store[i].timestamp - midnightTime)
  IN IF idx = {} THEN NULL
     ELSE Some(store[CHOOSE i \in idx :
                 \A j \in idx : dist(i) < dist(j) \/ (dist(i) = dist(j) /\ i <= j)])

getMidnightMeterReading(store, dateStr) ==
  LET midnightTime == getMidnightTimestamp(dateStr)
      idx == {i \in MeterRows(store) :
                /\ store[i].timestamp >= midnightTime
                /\ store[i].timestamp < nextMidnight(dateStr)}
      dist(i) == Abs(store[i].timestamp - midnightTime)
  IN IF idx = {} THEN NULL
     ELSE Some(store[CHOOSE i \in idx :
                 \A j \in idx : dist(i) < dist(j) \/ (dist(i) = dist(j) /\ i <= j)])

CoverageRows(store, dateStr) ==
  {i \in 1..Len(store) :
     /\ store[i].timestamp >= getMidnightTimestamp(dateStr)
     /\ store[i].timestamp < nextMidnight(dateStr)
     /\ store[i].category = "meter_reading"
     /\ store[i].source = "grid"}

\* variant: a day of exactly 12 readings still counts as gapped
checkMonitoringCoverage_le(store, dateStr) ==
  LET idx == CoverageRows(store, dateStr)
      stamps == {store[i].timestamp : i \in idx}
  IN [recordCount |-> Cardinality(idx),
      firstRecord |-> IF idx = {} THEN NULL
                      ELSE Some(CHOOSE t \in stamps : \A u \in stamps : t <= u),
      lastRecord  |-> IF idx = {} THEN NULL
                      ELSE Some(CHOOSE t \in stamps : \A u \in stamps : t >= u),
      hasGaps     |-> Cardinality(idx) <= GapThreshold]

checkMonitoringCoverage(store, dateStr) ==
  LET idx == CoverageRows(store, dateStr)
      stamps == {store[i].timestamp : i \in idx}
  IN [recordCount |-> Cardinality(idx),
      firstRecord |-> IF idx = {} THEN NULL
                      ELSE Some(CHOOSE t \in stamps : \A u \in stamps : t <= u),
      lastRecord  |-> IF idx = {} THEN NULL
                      ELSE Some(CHOOSE t \in stamps : \A u \in stamps : t >= u),
      hasGaps     |-> Cardinality(idx) < GapThreshold]

\* x || 0.8 : null and 0 are both falsy
OrDefault(confidence) ==
  IF IsNull(confidence) \/ Val(confidence) = 0
  THEN DefaultConfidence ELSE Val(confidence)

confidenceScoreOf(midnightReading, currentReading, coverage) ==
  Min(OrDefault(midnightReading.confidence), OrDefault(currentReading.confidence))
    * (IF coverage.hasGaps THEN GapPenalty ELSE FullScale)

\* variant: today counts as a closed day
IsCompleteAt_le(dateStr, today) == dateStr <= today

IsCompleteAt(dateStr, today) == dateStr < today

\* variant: the validation accepts every difference
isNegative_never(consumption) == FALSE

\* the validation of the computed consumption
isNegative(consumption) == consumption < 0

LedgerRow(data) ==
  [date                   |-> data.date,
   midnight_reading       |-> data.midnightReading,
   midnight_timestamp     |-> data.midnightTimestamp,
   current_reading        |-> data.currentReading,
   current_timestamp      |-> data.currentTimestamp,
   calculated_consumption |-> data.calculatedConsumption,
   is_complete            |-> data.isComplete,
   has_monitoring_gaps    |-> data.hasMonitoringGaps,
   confidence_score       |-> data.confidenceScore,
   notes                  |-> data.coverage.recordCount]

\* variant: plain INSERT, the row of the same date stays
saveDailyConsumption_insert(ledger, data) == ledger \cup {LedgerRow(data)}

\* variant: the new consumption is added to the stored one
saveDailyConsumption_accumulate(ledger, data) ==
  LET old == {r \in ledger : r.date = data.date}
      sum == IF old = {} THEN data.calculatedConsumption
             ELSE data.calculatedConsumption
                    + (CHOOSE r \in old : TRUE).calculated_consumption
  IN {r \in ledger : r.date # data.date}
       \cup {[LedgerRow(data) EXCEPT !.calculated_consumption = sum]}

\* INSERT OR REPLACE INTO daily_consumption, date UNIQUE
saveDailyConsumption(ledger, data) ==
  {r \in ledger : r.date # data.date} \cup {LedgerRow(data)}

\* the value calculateDailyConsumption returns: NULL or the result object
calcResult(store, dateStr, today) ==
  LET midnightReading == getMidnightMeterReading(store, dateStr)
      currentReading == getLatestMeterReading(store)
  IN IF IsNull(midnightReading) THEN NULL
     ELSE IF IsNull(currentReading) THEN NULL
     ELSE LET coverage == checkMonitoringCoverage(store, dateStr)
              consumption == Val(Val(currentReading).consumption_value)
                               - Val(Val(midnightReading).consumption_value)
          IN IF isNegative(consumption) THEN NULL
             ELSE Some([date                  |-> dateStr,
                        midnightReading       |-> Val(Val(midnightReading).consumption_value),
                        midnightTimestamp     |-> Val(midnightReading).timestamp,
                        currentReading        |-> Val(Val(currentReading).consumption_value),
                        currentTimestamp      |-> Val(currentReading).timestamp,
                        calculatedConsumption |-> consumption,
                        isComplete            |-> IsCompleteAt(dateStr, today),
                        hasMonitoringGaps     |-> coverage.hasGaps,
                        confidenceScore       |-> confidenceScoreOf(Val(midnightReading),
                                                                    Val(currentReading),
                                                                    coverage),
                        coverage              |-> coverage])

(***************************************************************************)
(* State machine.                                                          *)
(***************************************************************************)
\* ret records the last completed call: the operation, its argument, the
\* value of getTodayDate it used, what it returned, whether its upsert met
\* a ledger row of the same date, and whether it repeats the call before it
\* (same date, same today, no reading saved in between)
NoRet == [op |-> "none", date |-> 0, today |-> 0, result |-> NULL,
          replaced |-> FALSE, repeat |-> FALSE]

\* backfill is the backfillDailyConsumptions call in flight: where it stands,
\* its argument, the loop counter i, the calls of calculateDailyConsumption
\* it has made (date, today of the call, what came back) and its results
\* array; start is the date of today when it was called
NoBackfill == [pc |-> "idle", days |-> 0, start |-> 0, i |-> 0,
               calls |-> <<>>, results |-> <<>>]

\* inflight holds, for each caller, its calculateDailyConsumption call in
\* progress: the await it stands at, the date, the length of the store at
\* its first query, and what its queries have answered so far
Callers == {"dashboard", "monitor"}

IdleCall == [pc |-> "idle", date |-> 0, start |-> 0,
             midnightReading |-> NULL, currentReading |-> NULL, result |-> NULL]

NoCalls == [c \in Callers |-> IdleCall]

InitEmpty ==
  /\ now = 0
  /\ power_data = <<>>
  /\ daily_consumption = {}
  /\ ret = NoRet
  /\ backfill = NoBackfill
  /\ inflight = NoCalls

\* the wall clock advances by k ticks
Tick(k, maxTime) ==
  /\ now + k <= maxTime
  /\ now' = now + k
  /\ UNCHANGED <<power_data, daily_consumption, ret, backfill, inflight>>

\* One reading goes through the producer: extractPowerData stamps it with
\* the current instant, fingerprints it and drops invalid data; saveData
\* inserts it with the confidence it carries (confidenceOf maps the data
\* to the confidences the caller may attach).  A scrape yields at most one
\* reading of a kind, so an instant holds at most one reading of each
\* (category, source).
SaveData(categories, sources, values, confidenceOf, maxRows) ==
  /\ Len(power_data) < maxRows
  /\ \E category \in categories, source \in sources, value \in values :
       LET raw == [category |-> category, source |-> source, status |-> "",
                   value |-> Some(value)]
       IN \E confidence \in confidenceOf[raw] :
            LET data == [category    |-> category,
                         source      |-> source,
                         status      |-> "",
                         value       |-> Some(value),
                         timestamp   |-> now,
                         confidence  |-> confidence,
                         fingerprint |-> generateFingerprint(raw, now)]
            IN /\ isValidData(data)
               /\ \A i \in 1..Len(power_data) :
                    ~(/\ power_data[i].timestamp = now
                      /\ power_data[i].category = category
                      /\ power_data[i].source = source)
               /\ power_data' = saveOne(power_data, data)
  /\ ret' = [NoRet EXCEPT !.op = "save"]
  /\ UNCHANGED <<now, daily_consumption, backfill, inflight>>

calculateDailyConsumption(dateStr) ==
  LET result == calcResult(power_data, dateStr, getTodayDate)
  IN /\ daily_consumption' = IF IsNull(result) THEN daily_consumption
                             ELSE saveDailyConsumption(daily_consumption, Val(result))
     /\ ret' = [op |-> "calc", date |-> dateStr, today |-> getTodayDate,
                result |-> result,
                replaced |-> ~IsNull(result)
                             /\ \E r \in daily_consumption : r.date = dateStr,
                repeat |-> ret.op = "calc" /\ ret.date = dateStr
                           /\ ret.today = getTodayDate]
     /\ UNCHANGED <<now, power_data, backfill, inflight>>

Calculate == \E dateStr \in Dates : calculateDailyConsumption(dateStr)

(***************************************************************************)
(* Spec: scraped grid meter readings (0, falling and rising values) and    *)
(* current month consumptions, each scored by calculateConfidence; the     *)
(* clock moves by half days.                                               *)
(***************************************************************************)
Categories == {"meter_reading", "consumption"}
Sources == {"grid"}
Values == {0, 95, 100}

\* the data a scrape can extract
RawData ==
  [category : Categories, source : Sources, status : {""},
   value : {Some(v) : v \in Values}]

\* the confidence extractPowerData attaches
Scored == [raw \in RawData |-> {Some(calculateConfidence(raw))}]

Init == InitEmpty

Ingest == SaveData(Categories, Sources, Values, Scored, MaxRows)

Clock == Tick(HalfDay, MaxTime)

Next == Ingest \/ Clock \/ Calculate

Spec == Init /\ [][Next]_vars

(***************************************************************************)
(* SpecCov: a day of dense monitoring.  The store starts with n readings   *)
(* taken at the first n instants of day 0, n around the gap threshold, and *)
(* the clock at the instant after the last one; readings go on arriving    *)
(* one instant at a time.                                                  *)
(***************************************************************************)
CovValues == {v \in Values : v = 0 \/ v >= 100}
CovMaxRows == GapThreshold + MaxExtraRows
CovMaxTime == GapThreshold + SlackTicks

DenseReading(t) ==
  LET raw == [category |-> "meter_reading", source |-> "grid", status |-> "",
              value |-> Some(100 + t)]
  IN ReadingRow([category    |-> "meter_reading",
                 source      |-> "grid",
                 status      |-> "",
                 value       |-> Some(100 + t),
                 timestamp   |-> t,
                 confidence  |-> Some(calculateConfidence(raw)),
                 fingerprint |-> generateFingerprint(raw, t)])

InitCov ==
  /\ \E n \in (GapThreshold - 1)..GapThreshold :
       /\ now = n
       /\ power_data = [i \in 1..n |-> DenseReading(i - 1)]
  /\ daily_consumption = {}
  /\ ret = NoRet
  /\ backfill = NoBackfill
  /\ inflight = NoCalls

IngestCov == SaveData({"meter_reading"}, {"grid"}, CovValues, Scored, CovMaxRows)

ClockCov == Tick(1, CovMaxTime)

NextCov == IngestCov \/ ClockCov \/ Calculate

SpecCov == InitCov /\ [][NextCov]_vars

(***************************************************************************)
(* SpecConf: saveData called with readings that carry any confidence.      *)
(***************************************************************************)
ConfValues == {v \in Values : v >= 100}
AllConfidences == {NULL, Some(0), Some(50), Some(100), Some(150), Some(-50)}

AnyConfidence == [raw \in RawData |-> AllConfidences]

InitConf == InitEmpty

IngestConf == SaveData({"meter_reading"}, {"grid"}, ConfValues, AnyConfidence, MaxRows)

NextConf == IngestConf \/ Clock \/ Calculate

SpecConf == InitConf /\ [][NextConf]_vars

(***************************************************************************)
(* Grid availability readings.  One scrape reads the grid LED: the reading *)
(* is stamped with the current instant, scored, fingerprinted, validated   *)
(* and handed to saveData, which tracks the status change and inserts it.  *)
(***************************************************************************)
Statuses == {"online", "offline", "unknown"}

AvailabilityRows(store) ==
  {i \in 1..Len(store) :
     store[i].category = "availability" /\ store[i].source = "grid"}

\* injected database failures of one item of a batch: the previous-status
\* lookup, the event INSERT and the reading INSERT
NoFaults == [lookup |-> FALSE, event |-> FALSE, insert |-> FALSE]

Faults == [lookup : BOOLEAN, event : BOOLEAN, insert : BOOLEAN]

\* variant: no UNIQUE constraint on the fingerprint
insertError_noUnique(store, row, ioFails) ==
  IF ioFails THEN "io" ELSE ""

\* the error of one INSERT statement: "" when the row is stored
insertError(store, row, ioFails) ==
  IF ioFails THEN "io"
  ELSE IF row.fingerprint \in Fingerprints(store) THEN "unique"
  ELSE ""

\* variant: the first grid availability reading ever stored
lastGridStatus_first(store) ==
  LET idx == AvailabilityRows(store)
  IN IF idx = {} THEN NULL
     ELSE Some(store[CHOOSE i \in idx : \A j \in idx : i <= j])

\* variant: the latest grid availability reading of a known status
lastGridStatus_known(store) ==
  LatestOf(store, {i \in AvailabilityRows(store) : store[i].status # "unknown"})

\* the previous-status lookup: the latest grid availability reading
lastGridStatus(store) == LatestOf(store, AvailabilityRows(store))

\* variant: the event type is taken from the new status alone
eventTypeFor_byCurrent(previousStatus, currentStatus) ==
  IF currentStatus = "offline" THEN "interruption"
  ELSE IF currentStatus = "online" THEN "restoration"
  ELSE ""

\* the event type of a status change ("" for none)
eventTypeFor(previousStatus, currentStatus) ==
  IF previousStatus = "online" /\ currentStatus = "offline" THEN "interruption"
  ELSE IF previousStatus = "offline" /\ currentStatus = "online" THEN "restoration"
  ELSE ""

\* the try body of trackGridStatusChange: the store it leaves and the error
\* it rejects with ("" for none)
trackBody(store, currentData, faults) ==
  IF faults.lookup THEN [store |-> store, err |-> "io"]
  ELSE
    LET lastStatus == lastGridStatus(store)
    IN IF IsNull(lastStatus) THEN [store |-> store, err |-> ""]
       ELSE LET previousStatus == Val(lastStatus).status
                currentStatus == currentData.status
                eventType == eventTypeFor(previousStatus, currentStatus)
                row == EventRow(eventType, previousStatus, currentData)
                err == insertError(store, row, faults.event)
            IN IF previousStatus # currentStatus /\ eventType # ""
               THEN [store |-> IF err = "" THEN Append(store, row) ELSE store,
                     err |-> err]
               ELSE [store |-> store, err |-> ""]

\* variant: the catch of trackGridStatusChange rethrows
trackEscapes_rethrow(err) == err

\* the catch of trackGridStatusChange logs the error and rethrows nothing
trackEscapes(err) == ""

\* the INSERT callback of saveData
insertOutcome(err) ==
  IF err = "" THEN "saved"
  ELSE IF err = "unique" THEN "duplicate"
  ELSE "rejected"

\* variant: no try/catch around one item of the batch
itemEscapes_none(outcome) == outcome = "rejected" \/ outcome = "tracking"

\* the try/catch around one item of the batch warns and goes on
itemEscapes(outcome) == FALSE

\* one iteration of the loop of saveData
saveItem(store, data, faults) ==
  LET tracked == IF data.category = "availability" /\ data.source = "grid"
                 THEN trackBody(store, data, faults)
                 ELSE [store |-> store, err |-> ""]
  IN IF trackEscapes(tracked.err) # ""
     THEN [store |-> tracked.store, outcome |-> "tracking",
           threw |-> itemEscapes("tracking")]
     ELSE LET row == ReadingRow(data)
              err == insertError(tracked.store, row, faults.insert)
              outcome == insertOutcome(err)
          IN [store   |-> IF err = "" THEN Append(tracked.store, row)
                          ELSE tracked.store,
              outcome |-> outcome,
              threw   |-> itemEscapes(outcome)]

StatusData(status, timestamp) ==
  LET raw == [category |-> "availability", source |-> "grid",
              status |-> status, value |-> NULL]
  IN [category    |-> "availability",
      source      |-> "grid",
      status      |-> status,
      value       |-> NULL,
      timestamp   |-> timestamp,
      confidence  |-> Some(calculateConfidence(raw)),
      fingerprint |-> generateFingerprint(raw, timestamp)]

SaveStatus(status, maxRows) ==
  LET data == StatusData(status, now)
      done == saveItem(power_data, data, NoFaults)
  IN /\ Cardinality(AvailabilityRows(power_data)) < maxRows
     /\ isValidData(data)
     /\ \A i \in AvailabilityRows(power_data) : power_data[i].timestamp # now
     /\ power_data' = done.store
     /\ ret' = [op |-> "status", status |-> status, timestamp |-> now,
                outcome |-> done.outcome, threw |-> done.threw]
     /\ UNCHANGED <<now, daily_consumption, backfill, inflight>>

(***************************************************************************)
(* SpecEvt: one availability reading a minute at most.                     *)
(***************************************************************************)
EvtMaxTime == EvtMinutes * TicksPerMinute - 1

InitEvt == InitEmpty

IngestEvt == \E status \in Statuses : SaveStatus(status, EvtMinutes)

ClockEvt == Tick(TicksPerMinute, EvtMaxTime)

NextEvt == IngestEvt \/ ClockEvt

SpecEvt == InitEvt /\ [][NextEvt]_vars

(***************************************************************************)
(* SpecDup: availability readings at every instant of two minutes.         *)
(***************************************************************************)
DupMaxTime == 2 * TicksPerMinute - 1

InitDup == InitEmpty

IngestDup == \E status \in Statuses : SaveStatus(status, MaxStatusRows)

ClockDup == Tick(1, DupMaxTime)

NextDup == IngestDup \/ ClockDup

SpecDup == InitDup /\ [][NextDup]_vars

(***************************************************************************)
(* Storage failures of the calculator and the backfill loop.               *)
(***************************************************************************)
\* where the database fails during one calculateDailyConsumption: nowhere,
\* in initDatabase, in the read of the midnight reading, or in the upsert
CalcFaults == {"none", "open", "read", "upsert"}

\* calculateDailyConsumption under a failure: initDatabase is awaited before
\* the try, so its rejection leaves the call; a rejection of a read or of
\* the upsert is caught, logged and answered with null
calcOutcome(store, ledger, dateStr, today, fault) ==
  IF fault = "open"
  THEN [threw |-> TRUE, result |-> NULL, ledger |-> ledger]
  ELSE IF fault = "read"
  THEN [threw |-> FALSE, result |-> NULL, ledger |-> ledger]
  ELSE LET result == calcResult(store, dateStr, today)
       IN IF IsNull(result) \/ fault = "upsert"
          THEN [threw |-> FALSE, result |-> NULL, ledger |-> ledger]
          ELSE [threw |-> FALSE, result |-> result,
                ledger |-> saveDailyConsumption(ledger, Val(result))]

CalculateFaulty(dateStr, fault) ==
  LET out == calcOutcome(power_data, daily_consumption, dateStr, getTodayDate, fault)
  IN /\ daily_consumption' = out.ledger
     /\ ret' = [op |-> "calcf", date |-> dateStr, fault |-> fault,
                threw |-> out.threw, result |-> out.result,
                computable |-> ~IsNull(calcResult(power_data, dateStr, getTodayDate))]
     /\ UNCHANGED <<now, power_data, backfill, inflight>>

\* backfillDailyConsumptions(days) is called
BackfillStart(days) ==
  /\ backfill.pc = "idle"
  /\ backfill' = [pc |-> "loop", days |-> days, start |-> getTodayDate,
                  i |-> days - 1, calls |-> <<>>, results |-> <<>>]
  /\ UNCHANGED <<now, power_data, daily_consumption, ret, inflight>>

\* one iteration of its loop: the date is taken from the clock of this
\* iteration, calculateDailyConsumption is awaited, a result is pushed; a
\* rejection leaves the loop and the call; after i = 0 the array is returned
BackfillStep(fault) ==
  /\ backfill.pc = "loop"
  /\ LET date == (now - backfill.i * TicksPerDay) \div TicksPerDay
         out == calcOutcome(power_data, daily_consumption, date, getTodayDate, fault)
         call == [date |-> date, today |-> getTodayDate, fault |-> fault,
                  threw |-> out.threw, result |-> out.result]
     IN /\ daily_consumption' = out.ledger
        /\ backfill' =
             IF out.threw
             THEN [backfill EXCEPT !.pc = "threw", !.calls = Append(@, call)]
             ELSE [backfill EXCEPT
                     !.pc = IF backfill.i = 0 THEN "done" ELSE "loop",
                     !.i = @ - 1,
                     !.calls = Append(@, call),
                     !.results = IF IsNull(out.result) THEN @
                                 ELSE Append(@, Val(out.result))]
  /\ UNCHANGED <<now, power_data, ret, inflight>>

\* a grid meter reading as saveData stores it
MeterReading(value, timestamp) ==
  LET raw == [category |-> "meter_reading", source |-> "grid", status |-> "",
              value |-> Some(value)]
  IN ReadingRow([category    |-> "meter_reading",
                 source      |-> "grid",
                 status      |-> "",
                 value       |-> Some(value),
                 timestamp   |-> timestamp,
                 confidence  |-> Some(calculateConfidence(raw)),
                 fingerprint |-> generateFingerprint(raw, timestamp)])

\* the stores the backfill starts from: empty; readings of today that
\* give a result; a reading of yesterday above the one of today
Histories ==
  { <<>>,
    <<MeterReading(95, 0), MeterReading(100, HalfDay)>>,
    <<MeterReading(100, -TicksPerDay), MeterReading(95, 0)>> }

(***************************************************************************)
(* SpecBackfill: one backfill over a store, the clock running meanwhile.   *)
(***************************************************************************)
InitBackfill ==
  /\ now = HalfDay
  /\ power_data \in Histories
  /\ daily_consumption = {}
  /\ ret = NoRet
  /\ backfill = NoBackfill
  /\ inflight = NoCalls

StartBackfill == \E days \in 1..MaxDays : BackfillStart(days)

StepBackfill == \E fault \in CalcFaults : BackfillStep(fault)

NextBackfill == StartBackfill \/ StepBackfill \/ Clock

SpecBackfill == InitBackfill /\ [][NextBackfill]_vars

(***************************************************************************)
(* SpecFault: single calls of the calculator under storage failures.       *)
(***************************************************************************)
InitFault == InitBackfill

CalculateFault ==
  \E dateStr \in Dates, fault \in CalcFaults : CalculateFaulty(dateStr, fault)

NextFault == CalculateFault \/ Clock

SpecFault == InitFault /\ [][NextFault]_vars

(***************************************************************************)
(* SpecToday: the live figure of today, asked for between scrapes.         *)
(***************************************************************************)
\* what getTodayConsumption makes of the result of calculateDailyConsumption
todayReply(result) ==
  IF IsNull(result) THEN NULL
  ELSE Some([value                |-> Val(result).calculatedConsumption,
             unit                 |-> "UNITS",
             period               |-> "today",
             timestamp            |-> Val(result).currentTimestamp,
             confidence           |-> Val(result).confidenceScore,
             isRealTimeCalculated |-> TRUE,
             midnightReading      |-> Val(result).midnightReading,
             currentReading       |-> Val(result).currentReading,
             hasGaps              |-> Val(result).hasMonitoringGaps])

getTodayConsumption ==
  LET today == getTodayDate
      result == calcResult(power_data, today, getTodayDate)
  IN /\ daily_consumption' = IF IsNull(result) THEN daily_consumption
                             ELSE saveDailyConsumption(daily_consumption, Val(result))
     /\ ret' = [op |-> "today", date |-> today, result |-> result,
                reply |-> todayReply(result)]
     /\ UNCHANGED <<now, power_data, backfill, inflight>>

InitToday == InitEmpty

IngestToday == SaveData({"meter_reading"}, {"grid"}, Values, Scored, MaxRows)

NextToday == IngestToday \/ Clock \/ getTodayConsumption

SpecToday == InitToday /\ [][NextToday]_vars

(***************************************************************************)
(* SpecBatch: scrapes of two readings saved under database failures.       *)
(***************************************************************************)
MeterData(value, timestamp) ==
  LET raw == [category |-> "meter_reading", source |-> "grid", status |-> "",
              value |-> Some(value)]
  IN [category    |-> "meter_reading",
      source      |-> "grid",
      status      |-> "",
      value       |-> Some(value),
      timestamp   |-> timestamp,
      confidence  |-> Some(calculateConfidence(raw)),
      fingerprint |-> generateFingerprint(raw, timestamp)]

\* saveData of the batch of one scrape, the grid availability reading and
\* the grid meter reading, each item under its own failures
SaveBatch(status, value, faults1, faults2, maxRows) ==
  LET data1 == StatusData(status, now)
      data2 == MeterData(value, now)
      done1 == saveItem(power_data, data1, faults1)
      done2 == saveItem(done1.store, data2, faults2)
      outcomes == IF done1.threw THEN <<done1.outcome>>
                  ELSE <<done1.outcome, done2.outcome>>
  IN /\ Cardinality(AvailabilityRows(power_data)) < maxRows
     /\ isValidData(data1)
     /\ isValidData(data2)
     /\ \A i \in 1..Len(power_data) : power_data[i].timestamp # now
     /\ power_data' = IF done1.threw THEN done1.store ELSE done2.store
     /\ ret' = [op |-> "batch", status |-> status, value |-> value,
                timestamp |-> now, faults |-> <<faults1, faults2>>,
                outcomes |-> outcomes,
                threw |-> done1.threw \/ done2.threw,
                saved |-> Cardinality({k \in 1..Len(outcomes) : outcomes[k] = "saved"}),
                duplicates |-> Cardinality({k \in 1..Len(outcomes) :
                                              outcomes[k] = "duplicate"})]
     /\ UNCHANGED <<now, daily_consumption, backfill, inflight>>

\* the failures of the tracking alone, and of the reading INSERT alone
TrackFaults == {f \in Faults : ~f.insert}

InsertFaults == {f \in Faults : ~f.lookup /\ ~f.event}

InitBatch == InitEmpty

IngestBatch ==
  \E status \in Statuses, value \in ConfValues,
     faults1 \in TrackFaults, faults2 \in InsertFaults :
       SaveBatch(status, value, faults1, faults2, MaxStatusRows)

ClockBatch == Tick(TicksPerMinute, DupMaxTime)

NextBatch == IngestBatch \/ ClockBatch

SpecBatch == InitBatch /\ [][NextBatch]_vars

(***************************************************************************)
(* SpecCount: batches at every instant, the reading INSERTs failing.       *)
(***************************************************************************)
InitCount == InitEmpty

IngestCount ==
  \E status \in {"online", "offline"}, value \in ConfValues,
     faults1 \in InsertFaults, faults2 \in InsertFaults :
       SaveBatch(status, value, faults1, faults2, MaxRows)

ClockCount == Tick(1, TicksPerMinute)

NextCount == IngestCount \/ ClockCount

SpecCount == InitCount /\ [][NextCount]_vars

(***************************************************************************)
(* SpecQuery: the event log read back between scrapes.                     *)
(***************************************************************************)
RECURSIVE OrderByTimestampDesc(_)
\* the rows of a set of rows of distinct timestamps, newest first
OrderByTimestampDesc(rows) ==
  IF rows = {} THEN <<>>
  ELSE LET newest == CHOOSE r \in rows : \A q \in rows : q.timestamp <= r.timestamp
       IN <<newest>> \o OrderByTimestampDesc(rows \ {newest})

\* the rows of the SELECT of getGridEvents
gridEventRows(store) ==
  LET rows == {r \in {store[i] : i \in 1..Len(store)} :
                 /\ r.category = "event"
                 /\ r.source = "grid"
                 /\ r.status \in {"interruption", "restoration"}}
      ordered == OrderByTimestampDesc(rows)
  IN SubSeq(ordered, 1, Min(GridEventLimit, Len(ordered)))

\* events.find(e => e.type === type): the timestamp of the first, or null
findEvent(events, type) ==
  LET idx == {k \in 1..Len(events) : events[k].type = type}
  IN IF idx = {} THEN NULL
     ELSE Some(events[CHOOSE k \in idx : \A l \in idx : k <= l].timestamp)

\* getGridEvents declares no parameter: an argument passed to it is dropped
getGridEvents(limit) ==
  LET rows == gridEventRows(power_data)
      events == [k \in 1..Len(rows) |->
                   [timestamp      |-> rows[k].timestamp,
                    type           |-> rows[k].status,
                    previousStatus |-> rows[k].previousStatus,
                    currentStatus  |-> rows[k].currentStatus]]
  IN /\ ret' = [op |-> "events", limit |-> limit,
                lastInterruption |-> findEvent(events, "interruption"),
                lastRestoration  |-> findEvent(events, "restoration"),
                allEvents        |-> events]
     /\ UNCHANGED <<now, power_data, daily_consumption, backfill, inflight>>

InitQuery == InitEmpty

ReadEvents == \E limit \in {1, GridEventLimit} : getGridEvents(limit)

NextQuery == IngestEvt \/ ClockEvt \/ ReadEvents

SpecQuery == InitQuery /\ [][NextQuery]_vars

(***************************************************************************)
(* SpecAtTime: the consumption of a date up to a given time.               *)
(***************************************************************************)
\* getConsumptionAtTime: today is answered by getTodayConsumption.  For any
\* other date the try goes on to call this.getMidnightReading, a method the
\* class does not define (its anchor query is getMidnightMeterReading): the
\* TypeError is caught by the catch of the method, which returns null
getConsumptionAtTime(dateStr, targetTime) ==
  LET today == getTodayDate
      result == calcResult(power_data, today, getTodayDate)
  IN /\ daily_consumption' =
          IF dateStr = today /\ ~IsNull(result)
          THEN saveDailyConsumption(daily_consumption, Val(result))
          ELSE daily_consumption
     /\ ret' = [op |-> "attime", date |-> dateStr, targetTime |-> targetTime,
                today |-> today,
                reply |-> IF dateStr = today THEN todayReply(result) ELSE NULL]
     /\ UNCHANGED <<now, power_data, backfill, inflight>>

InitAtTime == InitBackfill

AskAtTime ==
  \E dateStr \in Dates, k \in 0..(2 * MaxDay + 1) : getConsumptionAtTime(dateStr, k * HalfDay)

NextAtTime == AskAtTime \/ Clock

SpecAtTime == InitAtTime /\ [][NextAtTime]_vars

(***************************************************************************)
(* SpecRace: calculateDailyConsumption await by await, two callers and     *)
(* the ingestion running side by side.                                     *)
(***************************************************************************)
\* the call is made and getMidnightMeterReading answers
QueryAnchor(c, dateStr) ==
  /\ inflight[c].pc = "idle"
  /\ LET midnightReading == getMidnightMeterReading(power_data, dateStr)
     IN inflight' = [inflight EXCEPT ![c] =
                       IF IsNull(midnightReading) THEN IdleCall
                       ELSE [IdleCall EXCEPT !.pc = "current",
                                             !.date = dateStr,
                                             !.start = Len(power_data),
                                             !.midnightReading = midnightReading]]
  /\ UNCHANGED <<now, power_data, daily_consumption, ret, backfill>>

\* getLatestMeterReading answers
QueryCurrent(c) ==
  /\ inflight[c].pc = "current"
  /\ LET currentReading == getLatestMeterReading(power_data)
     IN inflight' = [inflight EXCEPT ![c] =
                       IF IsNull(currentReading) THEN IdleCall
                       ELSE [@ EXCEPT !.pc = "coverage",
                                      !.currentReading = currentReading]]
  /\ UNCHANGED <<now, power_data, daily_consumption, ret, backfill>>

\* checkMonitoringCoverage answers; the result is built and the upsert issued
QueryCoverage(c) ==
  /\ inflight[c].pc = "coverage"
  /\ LET dateStr == inflight[c].date
         midnightReading == inflight[c].midnightReading
         currentReading == inflight[c].currentReading
         coverage == checkMonitoringCoverage(power_data, dateStr)
         consumption == Val(Val(currentReading).consumption_value)
                          - Val(Val(midnightReading).consumption_value)
         result == [date                  |-> dateStr,
                    midnightReading       |-> Val(Val(midnightReading).consumption_value),
                    midnightTimestamp     |-> Val(midnightReading).timestamp,
                    currentReading        |-> Val(Val(currentReading).consumption_value),
                    currentTimestamp      |-> Val(currentReading).timestamp,
                    calculatedConsumption |-> consumption,
                    isComplete            |-> IsCompleteAt(dateStr, getTodayDate),
                    hasMonitoringGaps     |-> coverage.hasGaps,
                    confidenceScore       |-> confidenceScoreOf(Val(midnightReading),
                                                                Val(currentReading),
                                                                coverage),
                    coverage              |-> coverage]
     IN inflight' = [inflight EXCEPT ![c] =
                       IF isNegative(consumption) THEN IdleCall
                       ELSE [@ EXCEPT !.pc = "write", !.result = Some(result)]]
  /\ UNCHANGED <<now, power_data, daily_consumption, ret, backfill>>

\* the INSERT OR REPLACE of saveDailyConsumption lands and the call returns
WriteLedger(c) ==
  /\ inflight[c].pc = "write"
  /\ daily_consumption' = saveDailyConsumption(daily_consumption, Val(inflight[c].result))
  /\ inflight' = [inflight EXCEPT ![c] = IdleCall]
  /\ UNCHANGED <<now, power_data, ret, backfill>>

\* the store the calls start from: one reading at the midnight of day 0
InitRace ==
  /\ now = 1
  /\ power_data = <<MeterReading(95, 0)>>
  /\ daily_consumption = {}
  /\ ret = NoRet
  /\ backfill = NoBackfill
  /\ inflight = NoCalls

IngestRace == SaveData({"meter_reading"}, {"grid"}, ConfValues, Scored, MaxRows)

ClockRace == Tick(1, TicksPerMinute)

StepRace ==
  \E c \in Callers :
    \/ \E dateStr \in Dates : QueryAnchor(c, dateStr)
    \/ QueryCurrent(c)
    \/ QueryCoverage(c)
    \/ WriteLedger(c)

NextRace == IngestRace \/ ClockRace \/ StepRace

SpecRace == InitRace /\ [][NextRace]_vars

(***************************************************************************)
(* SpecFrame: every operation on the Reading Store, writers and readers.   *)
(***************************************************************************)
RECURSIVE OrderByDateDesc(_)
\* the rows of a set of ledger rows, latest date first
OrderByDateDesc(rows) ==
  IF rows = {} THEN <<>>
  ELSE LET latest == CHOOSE r \in rows : \A q \in rows : q.date <= r.date
       IN <<latest>> \o OrderByDateDesc(rows \ {latest})

\* getDailyConsumptions: the ledger rows of the dates from startDate to
\* endDate
getDailyConsumptions(startDate, endDate) ==
  /\ ret' = [op |-> "daily", startDate |-> startDate, endDate |-> endDate,
             rows |-> OrderByDateDesc({r \in daily_consumption :
                                         r.date >= startDate /\ r.date <= endDate})]
  /\ UNCHANGED <<now, power_data, daily_consumption, backfill, inflight>>

InitFrame == InitEmpty

IngestFrame == SaveData({"meter_reading"}, {"grid"}, ConfValues, Scored, MaxRows)

StatusFrame == \E status \in {"online", "offline"} : SaveStatus(status, MaxRows)

ClockFrame == Tick(1, TicksPerMinute)

CalculateFrame == calculateDailyConsumption(getTodayDate)

BackfillFrame == BackfillStart(1) \/ BackfillStep("none")

ReadLedger == getDailyConsumptions(getTodayDate - 7, getTodayDate)

ReadEventsFrame == getGridEvents(GridEventLimit)

NextFrame ==
  \/ IngestFrame
  \/ StatusFrame
  \/ ClockFrame
  \/ CalculateFrame
  \/ BackfillFrame
  \/ getTodayConsumption
  \/ ReadLedger
  \/ ReadEventsFrame

SpecFrame == InitFrame /\ [][NextFrame]_vars

(***************************************************************************)
(* Vocabulary of the properties, stated on the tables themselves.          *)
(***************************************************************************)
IsGridMeter(row) == row.category = "meter_reading" /\ row.source = "grid"

InWindow(row, d) ==
  row.timestamp >= d * TicksPerDay /\ row.timestamp < (d + 1) * TicksPerDay

Rows(store) == {store[i] : i \in 1..Len(store)}

\* grid meter readings that carry a value
Valued(store) == {row \in Rows(store) : IsGridMeter(row) /\ row.consumption_value # NULL}

\* the valued readings of day d that are earliest in the day
Anchors(store, d) ==
  {a \in Valued(store) :
     InWindow(a, d) /\ \A b \in Valued(store) : InWindow(b, d) => a.timestamp <= b.timestamp}

\* the valued readings that are latest overall
Latests(store) ==
  {c \in Valued(store) : \A b \in Valued(store) : b.timestamp <= c.timestamp}

CalcReturned == ret.op = "calc"
CalcSucceeded == ret.op = "calc" /\ ret.result # NULL

\* a step that is one call of calculateDailyConsumption(d)
IsCalcStep(d) == ret'.op = "calc" /\ ret'.date = d /\ now' = now

(***************************************************************************)
(* C1: every record stored in the ledger has calculatedConsumption >= 0,   *)
(* and so has every record returned.                                       *)
(***************************************************************************)
C1_NonNegative ==
  /\ \A r \in daily_consumption : r.calculated_consumption >= 0
  /\ CalcSucceeded => Val(ret.result).calculatedConsumption >= 0

\* a call was refused for a negative difference while the ledger holds a record
C1_Witness ==
  /\ daily_consumption # {}
  /\ CalcReturned /\ ret.result = NULL
  /\ \E a \in Anchors(power_data, ret.date), c \in Latests(power_data) :
       Val(c.consumption_value) < Val(a.consumption_value)

(***************************************************************************)
(* C2: a call of calculateDailyConsumption(d) returns no result and leaves *)
(* the ledger exactly as it was whenever the day has no anchor reading, no *)
(* current reading exists, or current.value - anchor.value < 0.            *)
(***************************************************************************)
MustFail(store, d) ==
  \/ Anchors(store, d) = {}
  \/ Latests(store) = {}
  \/ \E a \in Anchors(store, d), c \in Latests(store) :
       Val(c.consumption_value) - Val(a.consumption_value) < 0

C2_FailureLeavesLedger ==
  [][\A d \in Dates :
       (IsCalcStep(d) /\ MustFail(power_data, d))
         => (ret'.result = NULL /\ daily_consumption' = daily_consumption)]_vars

\* the negative case happened on a date that already had a stored record,
\* which is still there
C2_Witness ==
  /\ CalcReturned /\ ret.result = NULL
  /\ \E a \in Anchors(power_data, ret.date), c \in Latests(power_data) :
       Val(c.consumption_value) < Val(a.consumption_value)
  /\ \E r \in daily_consumption : r.date = ret.date /\ r.calculated_consumption >= 0

(***************************************************************************)
(* C3: getMidnightMeterReading(date) returns a grid meter_reading of the   *)
(* day's window [midnight(date), midnight(date+1)) such that no other grid *)
(* meter_reading of the window is strictly closer to midnight(date), and   *)
(* returns none exactly when the window holds no grid meter_reading.       *)
(***************************************************************************)
C3_AnchorOfWindow ==
  \A d \in Dates :
    LET a == getMidnightMeterReading(power_data, d)
        window == {row \in Rows(power_data) : IsGridMeter(row) /\ InWindow(row, d)}
    IN /\ (a = NULL) <=> (window = {})
       /\ a # NULL =>
            /\ Val(a) \in window
            /\ \A b \in window :
                 Abs(b.timestamp - d * TicksPerDay)
                   >= Abs(Val(a).timestamp - d * TicksPerDay)

(***************************************************************************)
(* C4: for a date strictly before today the record produced has its       *)
(* current reading equal to the last grid meter reading taken before       *)
(* midnight(date+1).                                                       *)
(***************************************************************************)
C4_PastDayCurrentInDay ==
  (CalcSucceeded /\ ret.date < ret.today) =>
    LET r == Val(ret.result)
        upto == {c \in Valued(power_data) : c.timestamp < (ret.date + 1) * TicksPerDay}
    IN /\ r.currentTimestamp < (ret.date + 1) * TicksPerDay
       /\ \E c \in upto :
            /\ \A b \in upto : b.timestamp <= c.timestamp
            /\ r.currentTimestamp = c.timestamp
            /\ r.currentReading = Val(c.consumption_value)

(***************************************************************************)
(* C8: a record produced by calculateDailyConsumption(date) has            *)
(* isComplete = TRUE exactly when date is strictly before the processing   *)
(* date of the call; a record computed for today has isComplete = FALSE;   *)
(* the stored row carries the same flag.                                   *)
(***************************************************************************)
C8_IsComplete ==
  [][\A d \in Dates :
       (IsCalcStep(d) /\ ret'.result # NULL) =>
          /\ Val(ret'.result).isComplete = (d < now \div TicksPerDay)
          /\ \A r \in daily_consumption' :
               r.date = d => r.is_complete = (d < now \div TicksPerDay)]_vars

\* both cases are in the ledger: a closed past day and the live day
C8_Witness ==
  /\ \E r \in daily_consumption : r.is_complete /\ r.date < now \div TicksPerDay
  /\ \E r \in daily_consumption : ~r.is_complete
  /\ CalcSucceeded /\ ret.date = ret.today

(***************************************************************************)
(* C9: the ledger holds at most one record per date; a successful          *)
(* calculateDailyConsumption(date) replaces the record of that date by the *)
(* new result and changes no record of another date.                       *)
(***************************************************************************)
C9_Upsert ==
  /\ [](\A r1, r2 \in daily_consumption : r1.date = r2.date => r1 = r2)
  /\ [][\A d \in Dates :
          (IsCalcStep(d) /\ ret'.result # NULL) =>
             /\ {r \in daily_consumption' : r.date # d}
                  = {r \in daily_consumption : r.date # d}
             /\ \E r \in daily_consumption' :
                  /\ r.date = d
                  /\ r.current_timestamp = Val(ret'.result).currentTimestamp
                  /\ r.calculated_consumption = Val(ret'.result).calculatedConsumption
                  /\ r.midnight_timestamp = Val(ret'.result).midnightTimestamp]_vars

\* a stored record was replaced, next to a record of another date
C9_Witness ==
  /\ CalcSucceeded /\ ret.replaced
  /\ \E r \in daily_consumption : r.date # ret.date
  /\ \E r \in daily_consumption :
       r.date = ret.date /\ r.current_timestamp > r.midnight_timestamp

WindowCount(store, d) ==
  Cardinality({i \in 1..Len(store) : IsGridMeter(store[i]) /\ InWindow(store[i], d)})

C5_GapThreshold ==
  /\ [](\A d \in Dates :
          checkMonitoringCoverage(power_data, d).hasGaps
            = (WindowCount(power_data, d) < 12))
  /\ [][\A d \in Dates :
          (IsCalcStep(d) /\ ret'.result # NULL) =>
             /\ Val(ret'.result).hasMonitoringGaps = (WindowCount(power_data, d) < 12)
             /\ \A r \in daily_consumption' :
                  r.date = d => r.has_monitoring_gaps = (WindowCount(power_data, d) < 12)]_vars

\* a day with exactly 12 readings was computed without gaps, replacing the
\* record computed when the day had fewer
C5_Witness ==
  /\ CalcSucceeded /\ ret.replaced
  /\ WindowCount(power_data, ret.date) = 12
  /\ ~Val(ret.result).hasMonitoringGaps
  /\ \E r \in daily_consumption : r.date = ret.date /\ ~r.has_monitoring_gaps

(***************************************************************************)
(* C6: the confidenceScore of a successful record is min(a, c) times 0.7   *)
(* with gaps and times 1.0 without, a and c being the stored confidences   *)
(* of the anchor and of the current reading, 0.8 standing in only for an   *)
(* absent (null) confidence; a stored 0 is used as 0.                      *)
(***************************************************************************)
NullOnly(confidence) == IF confidence = NULL THEN 80 ELSE Val(confidence)

IsAvailability(row) == row.category = "availability" /\ row.source = "grid"

IsEvent(row) == row.category = "event"

AvailabilitySeq(store) == SelectSeq(store, IsAvailability)

EventSeq(store) == SelectSeq(store, IsEvent)

StatusesOf(rows) == [i \in 1..Len(rows) |-> rows[i].status]

\* the rows a step has added to the store
Added == {power_data'[i] : i \in (Len(power_data) + 1)..Len(power_data')}

IsStatusStep == ret'.op = "status" /\ now' = now /\ ret'.timestamp = now

IsCanonical(previousStatus, currentStatus) ==
  \/ previousStatus = "online" /\ currentStatus = "offline"
  \/ previousStatus = "offline" /\ currentStatus = "online"

TypeOfChangeTo(currentStatus) ==
  IF currentStatus = "offline" THEN "interruption" ELSE "restoration"

\* C11: when the grid availability readings stored, in timestamp order and in
\* distinct minutes, are online, offline, offline, online, the store holds
\* exactly two events: an interruption stamped with the second reading and a
\* restoration stamped with the fourth; up to the repeated offline reading
\* there is the interruption alone.
C11_TwoEvents ==
  LET a == AvailabilitySeq(power_data)
      e == EventSeq(power_data)
      ordered == \A i, j \in 1..Len(a) :
                   i < j => Minute(a[i].timestamp) < Minute(a[j].timestamp)
  IN /\ (ordered /\ StatusesOf(a) = <<"online", "offline", "offline">>)
          => /\ Len(e) = 1
             /\ e[1].status = "interruption"
             /\ e[1].timestamp = a[2].timestamp
     /\ (ordered /\ StatusesOf(a) = <<"online", "offline", "offline", "online">>)
          => /\ Len(e) = 2
             /\ e[1].status = "interruption"
             /\ e[1].timestamp = a[2].timestamp
             /\ e[2].status = "restoration"
             /\ e[2].timestamp = a[4].timestamp

C11_Witness ==
  /\ StatusesOf(AvailabilitySeq(power_data)) = <<"online", "offline", "offline", "online">>
  /\ StatusesOf(EventSeq(power_data)) = <<"interruption", "restoration">>

\* C12 (as stated): saving a grid availability reading adds an event row
\* exactly when a grid availability reading is already stored and the status
\* of the latest one differs from the status of the new reading.
C12_EventIffChanged ==
  [][IsStatusStep =>
       LET lastStatus == LatestOf(power_data, AvailabilityRows(power_data))
       IN (\E row \in Added : IsEvent(row))
            <=> (~IsNull(lastStatus) /\ Val(lastStatus).status # ret'.status)]_vars

\* C12 (amended): saving a grid availability reading adds an event row
\* exactly when a grid availability reading is already stored, the status of
\* the latest one and the status of the new reading are online then offline
\* or offline then online, and no event of that type is stored for the
\* minute of the new reading; the first reading ever and a reading of
\* unchanged status add none.
C12_EventIffCanonical ==
  [][IsStatusStep =>
       LET lastStatus == LatestOf(power_data, AvailabilityRows(power_data))
       IN /\ (\E row \in Added : IsEvent(row))
               <=> /\ ~IsNull(lastStatus)
                   /\ IsCanonical(Val(lastStatus).status, ret'.status)
                   /\ eventFingerprint(TypeOfChangeTo(ret'.status), now)
                        \notin Fingerprints(power_data)
          /\ (IsNull(lastStatus) \/ Val(lastStatus).status = ret'.status)
               => ~\E row \in Added : IsEvent(row)]_vars

\* an event was added by the reading just saved, and an earlier change to
\* or from unknown added none
C12_Witness ==
  /\ ret.op = "status"
  /\ \E i \in 1..Len(power_data) :
       /\ IsEvent(power_data[i])
       /\ power_data[i].timestamp = ret.timestamp
  /\ \E i \in AvailabilityRows(power_data) : power_data[i].status = "unknown"

\* C13: every stored event is an interruption from online to offline or a
\* restoration from offline to online; saving a reading adds no event when
\* its status or the status of the latest stored reading is unknown, so the
\* reading after an unknown one is compared with the unknown one.
C13_CanonicalOnly ==
  /\ [](\A i \in 1..Len(power_data) :
          IsEvent(power_data[i]) =>
            \/ /\ power_data[i].status = "interruption"
               /\ power_data[i].previousStatus = "online"
               /\ power_data[i].currentStatus = "offline"
            \/ /\ power_data[i].status = "restoration"
               /\ power_data[i].previousStatus = "offline"
               /\ power_data[i].currentStatus = "online")
  /\ [][IsStatusStep =>
          LET lastStatus == LatestOf(power_data, AvailabilityRows(power_data))
          IN (\/ ret'.status = "unknown"
              \/ ~IsNull(lastStatus) /\ Val(lastStatus).status = "unknown")
               => ~\E row \in Added : IsEvent(row)]_vars

\* offline, unknown, online have been stored and no event with them
C13_Witness ==
  /\ StatusesOf(AvailabilitySeq(power_data)) = <<"offline", "unknown", "online">>
  /\ EventSeq(power_data) = <<>>

\* C14: no two rows of the store share a fingerprint, so there is at most
\* one availability reading per status and minute and at most one event per
\* event type, source and minute; saving a reading adds no row whose
\* fingerprint is already stored, whether the reading or its event, and
\* raises no error: a reading of a stored fingerprint is counted a duplicate.
C14_UniqueFingerprint ==
  /\ [](\A i, j \in 1..Len(power_data) :
          i # j =>
            /\ power_data[i].fingerprint # power_data[j].fingerprint
            /\ (IsAvailability(power_data[i]) /\ IsAvailability(power_data[j]))
                 => ~(/\ power_data[i].status = power_data[j].status
                      /\ Minute(power_data[i].timestamp) = Minute(power_data[j].timestamp))
            /\ (IsEvent(power_data[i]) /\ IsEvent(power_data[j]))
                 => ~(/\ power_data[i].status = power_data[j].status
                      /\ power_data[i].source = power_data[j].source
                      /\ Minute(power_data[i].timestamp) = Minute(power_data[j].timestamp)))
  /\ [][IsStatusStep =>
          /\ \A row \in Added : row.fingerprint \notin Fingerprints(power_data)
          /\ ~ret'.threw
          /\ StatusData(ret'.status, now).fingerprint \in Fingerprints(power_data)
               => /\ ret'.outcome = "duplicate"
                  /\ ~\E row \in Added : IsAvailability(row)]_vars

\* a reading of a stored fingerprint has been saved after a change of status
\* in its minute, with both events of that minute stored
C14_Witness ==
  /\ ret.op = "status"
  /\ ret.outcome = "duplicate"
  /\ \E i, j \in 1..Len(power_data) :
       /\ IsEvent(power_data[i]) /\ IsEvent(power_data[j])
       /\ power_data[i].status = "interruption"
       /\ power_data[j].status = "restoration"
       /\ Minute(power_data[i].timestamp) = Minute(ret.timestamp)
       /\ Minute(power_data[j].timestamp) = Minute(ret.timestamp)

(***************************************************************************)
(* Properties of the backfill and of the calculator under failures.        *)
(***************************************************************************)
Returned(call) == ~IsNull(call.result)

\* the results of the calls that returned one, in the order of the calls
ResultsOf(calls) ==
  LET ok == SelectSeq(calls, Returned)
  IN [k \in 1..Len(ok) |-> Val(ok[k].result)]

\* C15: a backfill of `days` days calls calculateDailyConsumption for the
\* dates today-(days-1) up to today, today being the date of its call,
\* oldest first and once each, and returns exactly the results of the calls
\* that returned one, in that order.
C15_BackfillOrder ==
  /\ \A k \in 1..Len(backfill.calls) :
       backfill.calls[k].date = backfill.start - (backfill.days - k)
  /\ backfill.pc = "done"
       => /\ Len(backfill.calls) = backfill.days
          /\ backfill.results = ResultsOf(backfill.calls)

\* C16: a backfill never aborts: whatever fails in the computation of a
\* date, a storage error in opening the store included, the dates after it
\* are computed and the results of the dates that succeeded are returned.
C16_BackfillNeverAborts ==
  /\ backfill.pc # "threw"
  /\ \A k \in 1..Len(backfill.calls) :
       (~Returned(backfill.calls[k]) /\ k < backfill.days)
         => backfill.pc = "loop" \/ Len(backfill.calls) > k
  /\ backfill.pc = "done"
       => /\ Len(backfill.calls) = backfill.days
          /\ backfill.results = ResultsOf(backfill.calls)

\* C17: the calls of one backfill use a single value of today: their dates
\* are `days` consecutive dates, and every isComplete flag compares the
\* date with the today of the start of the backfill.
C17_SingleToday ==
  /\ \A k \in 1..Len(backfill.calls) :
       /\ backfill.calls[k].today = backfill.start
       /\ k > 1 => backfill.calls[k].date = backfill.calls[k - 1].date + 1
       /\ Returned(backfill.calls[k])
            => Val(backfill.calls[k].result).isComplete
                 = (backfill.calls[k].date < backfill.start)
  /\ backfill.pc = "done" => Len(backfill.calls) = backfill.days

\* C20: when a read or the upsert of calculateDailyConsumption fails in the
\* store, the call raises an error to its caller, which a call that finds
\* no data does not, and the ledger stays as it was.
C20_StorageErrorPropagates ==
  [][(/\ ret'.op = "calcf"
      /\ now' = now
      /\ \/ ret'.fault = "read"
         \/ ret'.fault = "upsert" /\ ret'.computable)
       => /\ ret'.threw
          /\ daily_consumption' = daily_consumption]_vars

\* C18: getTodayConsumption answers from the store as it is at the call: it
\* returns none exactly when calculateDailyConsumption(today) does, and
\* otherwise the consumption, confidence and gap flag of that record, marked
\* isRealTimeCalculated, with the timestamp and the value of the latest grid
\* meter reading stored, so a reading appended since the call before shows.
C18_TodayRecomputes ==
  ret.op = "today" =>
    /\ IsNull(ret.reply) <=> IsNull(ret.result)
    /\ ~IsNull(ret.reply) =>
         LET reply == Val(ret.reply)
             result == Val(ret.result)
             idx == {i \in 1..Len(power_data) : IsGridMeter(power_data[i])}
             latest == Val(LatestOf(power_data, idx))
         IN /\ reply.value = result.calculatedConsumption
            /\ reply.confidence = result.confidenceScore
            /\ reply.hasGaps = result.hasMonitoringGaps
            /\ reply.isRealTimeCalculated
            /\ reply.timestamp = latest.timestamp
            /\ Some(reply.currentReading) = latest.consumption_value
            /\ reply.value = reply.currentReading - reply.midnightReading

\* C19: when the previous-status lookup or the event INSERT of
\* trackGridStatusChange fails in the database, saveData raises nothing, still
\* runs the INSERT of the availability reading (which is stored), and goes
\* on to the next reading of the batch (stored unless its own INSERT fails).
C19_TrackingErrorContained ==
  [][(/\ ret'.op = "batch"
      /\ now' = now
      /\ ret'.timestamp = now
      /\ ret'.faults[1].lookup \/ ret'.faults[1].event)
       => /\ ~ret'.threw
          /\ Len(ret'.outcomes) = 2
          /\ ret'.outcomes[1] = "saved"
          /\ StatusData(ret'.status, now).fingerprint \in Fingerprints(power_data')
          /\ ret'.outcomes[2] = IF ret'.faults[2].insert THEN "rejected" ELSE "saved"
          /\ ~ret'.faults[2].insert
               => MeterData(ret'.value, now).fingerprint \in Fingerprints(power_data')]_vars

\* the event INSERT of an interruption failed: the offline reading and the
\* meter reading of its batch are stored, the event is not
C19_Witness ==
  /\ ret.op = "batch"
  /\ ret.faults[1].event
  /\ ~ret.faults[1].lookup
  /\ ret.status = "offline"
  /\ ret.outcomes = <<"saved", "saved">>
  /\ \E i \in AvailabilityRows(power_data) :
       power_data[i].status = "online" /\ power_data[i].timestamp < ret.timestamp
  /\ EventSeq(power_data) = <<>>

(***************************************************************************)
(* Properties of the ledger over time and of the queries of the engine.    *)
(***************************************************************************)
\* C26: in every state, also when the clock has passed midnight since the
\* last computation, a ledger record is flagged complete exactly when its
\* date is before the date of today.
C26_IsCompleteFollowsClock ==
  \A r \in daily_consumption : r.is_complete <=> r.date < getTodayDate

\* C27: in every record of the ledger, and in every record returned, the
\* current reading is not older than the anchor.
C27_CurrentNotOlder ==
  /\ \A r \in daily_consumption : r.current_timestamp >= r.midnight_timestamp
  /\ CalcSucceeded => Val(ret.result).currentTimestamp >= Val(ret.result).midnightTimestamp

\* the record of a past day, whose current reading is of a later day
C27_Witness ==
  /\ CalcSucceeded
  /\ Val(ret.result).currentTimestamp > Val(ret.result).midnightTimestamp
  /\ Val(ret.result).currentTimestamp >= nextMidnight(ret.date)
  /\ \E r \in daily_consumption :
       r.date = ret.date /\ r.current_timestamp = Val(ret.result).currentTimestamp

\* C28: the rows checkMonitoringCoverage counts for a date are the rows
\* getMidnightMeterReading may return for it: when the count is positive an
\* anchor is found, also on a day whose readings were ingested with value 0.
C28_CoverageMeansAnchor ==
  \A d \in Dates :
    /\ CoverageRows(power_data, d)
         = {i \in MeterRows(power_data) : InWindow(power_data[i], d)}
    /\ checkMonitoringCoverage(power_data, d).recordCount > 0
         => ~IsNull(getMidnightMeterReading(power_data, d))

\* C29: in the stored grid events, in timestamp order, interruptions and
\* restorations alternate: no two events of one type follow each other.
C29_EventsAlternate ==
  LET e == EventSeq(power_data)
  IN \A k \in 1..(Len(e) - 1) :
       /\ e[k].timestamp <= e[k + 1].timestamp
       /\ e[k].status # e[k + 1].status

\* C30: saveData runs both readings of the batch, in order, whatever fails
\* in the INSERT of the first; saved is the number of reading rows the
\* batch added, duplicates the number of readings the fingerprint constraint
\* rejected, and together they do not exceed the batch size.
C30_BatchCounters ==
  [][(ret'.op = "batch" /\ now' = now /\ ret'.timestamp = now) =>
       LET items == <<StatusData(ret'.status, now), MeterData(ret'.value, now)>>
           added == {row \in Added : ~IsEvent(row)}
           rejected == {k \in 1..2 :
                          /\ ~ret'.faults[k].insert
                          /\ items[k].fingerprint \in Fingerprints(power_data)}
       IN /\ ~ret'.threw
          /\ Len(ret'.outcomes) = 2
          /\ \A k \in 1..2 :
               /\ ret'.outcomes[k] = "saved"
                    <=> \E row \in added : row.fingerprint = items[k].fingerprint
               /\ ret'.outcomes[k] = "duplicate" <=> k \in rejected
               /\ ret'.outcomes[k] = "rejected" <=> ret'.faults[k].insert
          /\ ret'.saved = Cardinality(added)
          /\ ret'.duplicates = Cardinality(rejected)
          /\ ret'.saved + ret'.duplicates <= 2
          /\ \A i, j \in (Len(power_data) + 1)..Len(power_data') :
               (IsAvailability(power_data'[i]) /\ IsGridMeter(power_data'[j])) => i < j]_vars

\* the INSERT of the first reading failed and the second was a duplicate
C30_Witness ==
  /\ ret.op = "batch"
  /\ ret.faults[1].insert
  /\ ret.outcomes = <<"rejected", "duplicate">>
  /\ ret.saved = 0
  /\ ret.duplicates = 1

\* C21: getGridEvents(limit) returns the `limit` latest grid events, all of
\* them when fewer are stored, newest first, each with its timestamp, type
\* and previous and current status; lastInterruption and lastRestoration
\* are the latest stored event of each type.
C21_LatestEvents ==
  ret.op = "events" =>
    LET stored == {r \in {power_data[i] : i \in 1..Len(power_data)} : IsEvent(r)}
        newestOf(type) ==
          LET typed == {r \in stored : r.status = type}
          IN IF typed = {} THEN NULL
             ELSE Some((CHOOSE r \in typed : \A q \in typed : q.timestamp <= r.timestamp).timestamp)
        n == Min(ret.limit, Cardinality(stored))
    IN /\ Len(ret.allEvents) = n
       /\ \A k \in 1..Len(ret.allEvents) :
            /\ \E r \in stored :
                 /\ r.timestamp = ret.allEvents[k].timestamp
                 /\ r.status = ret.allEvents[k].type
                 /\ r.previousStatus = ret.allEvents[k].previousStatus
                 /\ r.currentStatus = ret.allEvents[k].currentStatus
            /\ Cardinality({r \in stored : r.timestamp > ret.allEvents[k].timestamp}) = k - 1
       /\ ret.lastInterruption = newestOf("interruption")
       /\ ret.lastRestoration = newestOf("restoration")

\* C25: for a past date with an anchor in its window, getConsumptionAtTime
\* returns the value of the latest grid meter reading at or before the
\* target time, of whatever day, minus the anchor, with confidence 0.9,
\* isRealTimeCalculated and hasGaps false, and none only when that reading
\* is missing or the difference is negative; for today it returns what
\* getTodayConsumption returns.
C25_ConsumptionAtTime ==
  ret.op = "attime" =>
    /\ ret.date = ret.today
         => ret.reply = todayReply(calcResult(power_data, ret.today, ret.today))
    /\ (ret.date < ret.today /\ ~IsNull(getMidnightMeterReading(power_data, ret.date)))
         => LET anchor == Val(getMidnightMeterReading(power_data, ret.date))
                upTo == {i \in MeterRows(power_data) :
                           power_data[i].timestamp <= ret.targetTime}
                r == LatestOf(power_data, upTo)
            IN IF IsNull(r) \/ Val(Val(r).consumption_value) < Val(anchor.consumption_value)
               THEN IsNull(ret.reply)
               ELSE /\ ~IsNull(ret.reply)
                    /\ Val(ret.reply).value
                         = Val(Val(r).consumption_value) - Val(anchor.consumption_value)
                    /\ Val(ret.reply).timestamp = Val(r).timestamp
                    /\ Val(ret.reply).confidence = HistoricalConfidence
                    /\ ~Val(ret.reply).isRealTimeCalculated
                    /\ ~Val(ret.reply).hasGaps

(***************************************************************************)
(* Properties of overlapping calls.                                        *)
(***************************************************************************)
\* C23: the upsert of a call never replaces the ledger row of its date by a
\* record whose current reading is older than the one of the row.
C23_NoOlderOverwrite ==
  [][\A c \in Callers :
       (inflight[c].pc = "write" /\ inflight'[c].pc = "idle")
         => \A r \in daily_consumption :
              r.date = inflight[c].date
                => Val(inflight[c].result).currentTimestamp >= r.current_timestamp]_vars

\* C24: the record a call persists is what its three queries answer in one
\* state of the store between its first query and its upsert: the anchor,
\* the current reading, the record count and the gap flag.
C24_OneSnapshot ==
  \A c \in Callers :
    inflight[c].pc = "write" =>
      \E n \in inflight[c].start..Len(power_data) :
        LET store == SubSeq(power_data, 1, n)
            result == Val(inflight[c].result)
            anchor == getMidnightMeterReading(store, result.date)
            current == getLatestMeterReading(store)
            coverage == checkMonitoringCoverage(store, result.date)
        IN /\ ~IsNull(anchor)
           /\ ~IsNull(current)
           /\ result.midnightTimestamp = Val(anchor).timestamp
           /\ result.midnightReading = Val(Val(anchor).consumption_value)
           /\ result.currentTimestamp = Val(current).timestamp
           /\ result.currentReading = Val(Val(current).consumption_value)
           /\ result.coverage.recordCount = coverage.recordCount
           /\ result.hasMonitoringGaps = coverage.hasGaps

(***************************************************************************)
(* The Reading Store is append-only.                                       *)
(***************************************************************************)
ReadOps == {"calc", "today", "daily", "events"}

\* C22: no step modifies or removes a stored row: the store of before is a
\* prefix of the store of after; calculateDailyConsumption, the backfill,
\* getTodayConsumption, getDailyConsumptions and getGridEvents leave the
\* store as it is, and saveData with its tracker only adds rows.
C22_AppendOnly ==
  [][/\ Len(power_data') >= Len(power_data)
     /\ SubSeq(power_data', 1, Len(power_data)) = power_data
     /\ ((ret'.op \in ReadOps /\ now' = now) \/ backfill' # backfill)
          => power_data' = power_data]_vars

\* saveData has stored readings, its tracker an event, and the readers
\* have run on that store: a record is in the ledger, a backfill is done
\* and the event log has been read
C22_Witness ==
  /\ \E i \in 1..Len(power_data) : IsEvent(power_data[i])
  /\ \E i \in 1..Len(power_data) : IsGridMeter(power_data[i])
  /\ daily_consumption # {}
  /\ backfill.pc = "done"
  /\ ret.op = "events"
  /\ Len(ret.allEvents) > 0

====
